---- MODULE Spec2Model ----
(***************************************************************************)
(* A model of nuls (src/src/main.rs): the status aggregation, the entry    *)
(* collection, the sort, the formatters and the control flow of run/main.  *)
(*                                                                         *)
(* Strings are sequences of one-character strings; Code gives the byte of  *)
(* each character, so that String::cmp (bytewise lexicographic) and        *)
(* to_lowercase are computed as Rust computes them on ASCII text.          *)
(* Option<T> is [some |-> FALSE] or [some |-> TRUE, val |-> v].            *)
(***************************************************************************)
EXTENDS Integers, Sequences, FiniteSets, TLC

VARIABLES
    pc,          \* position of the run: main .. done
    cli,         \* the parsed options (struct Cli)
    env,         \* what the filesystem and the git subprocesses answer in this run
    git_info,    \* Option<GitInfo> handed to collect_entries
    todo,        \* directory entries dir_reader has not yielded yet
    input,       \* rows in push order, as they are when sort_rows is called
    rows,        \* the rows vector of collect_entries
    result,      \* the Result<(), String> of run, once an error is raised
    stdout,      \* lines printed by render_table
    stderr,      \* lines printed by main
    exit_code,   \* the exit code of the process, once it has exited
    now,         \* SystemTime::now(), whole seconds
    prev,        \* the format_relative_time call before the last one
    cur,         \* the last format_relative_time call: its argument and result
    fmt_status,  \* the GitStatus given to format_git
    fmt_suffix,  \* the pair format_git returned for fmt_status
    status_map,  \* the path -> GitStatus map given to scope_git_entries
    rel_base,    \* list_path relative to git_root
    scoped,      \* the map scope_git_entries returned
    gpc,         \* where load_git_info is: status, numstat, scope
    lines_read,  \* the lines of git output read so far, in order
    map_before,  \* status_map as it was before the last line read
    size_in,     \* the byte count given to format_size
    size_text    \* the text format_size returned for size_in

runVars == <<pc, cli, env, git_info, todo, input, rows, result, stdout, stderr, exit_code, now>>

timeVars == <<prev, cur>>

fmtVars == <<fmt_status, fmt_suffix>>

scopeVars == <<status_map, rel_base, scoped>>

gitVars == <<gpc, lines_read, map_before>>

sizeVars == <<size_in, size_text>>

vars == <<runVars, timeVars, fmtVars, scopeVars, gitVars, sizeVars>>

----------------------------------------------------------------------------
(* Option<T> *)

None == [some |-> FALSE]

Some(v) == [some |-> TRUE, val |-> v]

(* Result<T, String> *)

Ok(v) == [ok |-> TRUE, val |-> v]

Err(msg) == [ok |-> FALSE, err |-> msg]

----------------------------------------------------------------------------
(* Strings *)

\* A character is a one-element string; a character outside ASCII is written
\* by its code point ("U+00E9" is e with an acute accent). Code gives the UTF-8
\* bytes of a character read as one number, which orders texts as their bytes do.
Code ==
    (" " :> 32) @@ ("!" :> 33) @@ ("(" :> 40) @@ (")" :> 41) @@ ("+" :> 43) @@
    ("-" :> 45) @@ ("." :> 46) @@ ("/" :> 47) @@
    ("0" :> 48) @@ ("1" :> 49) @@ ("2" :> 50) @@ ("3" :> 51) @@ ("4" :> 52) @@
    ("5" :> 53) @@ ("6" :> 54) @@ ("7" :> 55) @@ ("8" :> 56) @@ ("9" :> 57) @@
    ("?" :> 63) @@ ("A" :> 65) @@ ("B" :> 66) @@
    ("a" :> 97) @@ ("b" :> 98) @@ ("c" :> 99) @@ ("d" :> 100) @@ ("e" :> 101) @@
    ("f" :> 102) @@ ("g" :> 103) @@ ("h" :> 104) @@ ("i" :> 105) @@
    ("j" :> 106) @@ ("k" :> 107) @@ ("l" :> 108) @@ ("m" :> 109) @@
    ("n" :> 110) @@ ("o" :> 111) @@ ("r" :> 114) @@ ("s" :> 115) @@
    ("t" :> 116) @@ ("u" :> 117) @@ ("w" :> 119) @@ ("y" :> 121) @@
    ("U+00E9" :> 50089)

Chr(n) == CHOOSE c \in DOMAIN Code : Code[c] = n

\* char::to_lowercase on an ASCII character
lower_char(c) ==
    IF Code[c] >= Code["A"] /\ Code[c] <= Code["A"] + 25
    THEN Chr(Code[c] + (Code["a"] - Code["A"]))
    ELSE c

\* str::to_lowercase
to_lowercase(s) == [i \in 1..Len(s) |-> lower_char(s[i])]

\* Ordering::reverse
ord_reverse(o) ==
    CASE o = "Less" -> "Greater"
      [] o = "Greater" -> "Less"
      [] OTHER -> "Equal"

\* Ord::cmp on integers
int_cmp(x, y) == IF x < y THEN "Less" ELSE IF x > y THEN "Greater" ELSE "Equal"

\* String::cmp: bytewise lexicographic, a proper prefix is Less
RECURSIVE str_cmp(_, _)
str_cmp(a, b) ==
    IF a = <<>> /\ b = <<>> THEN "Equal"
    ELSE IF a = <<>> THEN "Less"
    ELSE IF b = <<>> THEN "Greater"
    ELSE IF Code[Head(a)] # Code[Head(b)] THEN int_cmp(Code[Head(a)], Code[Head(b)])
    ELSE str_cmp(Tail(a), Tail(b))

\* Ordering::then_with
then_with(o, next) == IF o = "Equal" THEN next ELSE o

\* u64 Display: the decimal digits of n
RECURSIVE Digits(_)
Digits(n) ==
    IF n < 10 THEN <<Chr(Code["0"] + n)>>
    ELSE Digits(n \div 10) \o <<Chr(Code["0"] + (n % 10))>>

\* [T]::join(" ")
RECURSIVE join_space(_)
join_space(parts) ==
    IF parts = <<>> THEN <<>>
    ELSE IF Len(parts) = 1 THEN parts[1]
    ELSE parts[1] \o <<" ">> \o join_space(Tail(parts))

----------------------------------------------------------------------------
(* palette: an escape sequence is one element of a colored string *)

RESET == <<"ESC[0m">>

BORDER == <<"ESC[38;5;99m">>

HEADER == <<"ESC[38;5;82m">>

INDEX == <<"ESC[38;5;51m">>

TYPE == <<"ESC[38;5;78m">>

SIZE == <<"ESC[38;5;45m">>

MODIFIED == <<"ESC[38;5;114m">>

MODIFIED_RECENT == <<"ESC[38;5;82m">>

MODIFIED_SOON == <<"ESC[38;5;148m">>

MODIFIED_HOURS == <<"ESC[38;5;184m">>

MODIFIED_DAYS == <<"ESC[38;5;208m">>

MODIFIED_WEEKS == <<"ESC[38;5;203m">>

MODIFIED_OLD == <<"ESC[38;5;244m">>

MODIFIED_FUTURE == <<"ESC[38;5;111m">>

DIR == <<"ESC[38;5;45m">>

FILE == <<"ESC[38;5;252m">>

EXEC == <<"ESC[38;5;197m">>

DOTFILE == <<"ESC[38;5;179m">>

WARN == <<"ESC[38;5;214m">>

GIT_DIRTY == <<"ESC[38;5;214m">>

GIT_ADDED == <<"ESC[38;5;77m">>

GIT_REMOVED == <<"ESC[38;5;203m">>

GIT_CLEAN == <<"ESC[38;5;240m">>

paint(text, color) == color \o text \o RESET

----------------------------------------------------------------------------
(* format_git *)

GitStatus(a, d, dirty, untracked) ==
    [added |-> a, deleted |-> d, dirty |-> dirty, untracked |-> untracked]

\* format_git with the "+?" marker pushed for every untracked record
format_git_marks_every_untracked(status) ==
    IF ~status.dirty /\ ~status.untracked
    THEN [plain |-> <<>>, colored |-> paint(<<"(", "c", "l", "e", "a", "n", ")">>, GIT_CLEAN)]
    ELSE
      LET unk == IF status.untracked THEN <<(<<"+", "?">>)>> ELSE <<>>
          add == IF status.added.some
                 THEN <<(<<"+">> \o Digits(status.added.val))>> ELSE <<>>
          del == IF status.deleted.some
                 THEN <<(<<"-">> \o Digits(status.deleted.val))>> ELSE <<>>
          found == unk \o add \o del
          parts == IF found = <<>> THEN <<(<<"d", "i", "r", "t", "y">>)>> ELSE found
      IN  [plain |-> <<"(">> \o join_space(parts) \o <<")">>,
           colored |-> <<"(">> \o join_space(parts) \o <<")">>]

format_git(status) ==
    IF ~status.dirty /\ ~status.untracked
    THEN [plain |-> <<>>, colored |-> paint(<<"(", "c", "l", "e", "a", "n", ")">>, GIT_CLEAN)]
    ELSE
      LET unk == IF status.untracked /\ ~status.added.some
                 THEN <<[p |-> <<"+", "?">>, c |-> paint(<<"+", "?">>, GIT_ADDED)]>>
                 ELSE <<>>
          add == IF status.added.some
                 THEN <<[p |-> <<"+">> \o Digits(status.added.val),
                         c |-> paint(<<"+">> \o Digits(status.added.val), GIT_ADDED)]>>
                 ELSE <<>>
          del == IF status.deleted.some
                 THEN <<[p |-> <<"-">> \o Digits(status.deleted.val),
                         c |-> paint(<<"-">> \o Digits(status.deleted.val), GIT_REMOVED)]>>
                 ELSE <<>>
          found == unk \o add \o del
          parts == IF found = <<>>
                   THEN <<[p |-> <<"d", "i", "r", "t", "y">>,
                           c |-> paint(<<"d", "i", "r", "t", "y">>, GIT_DIRTY)]>>
                   ELSE found
          plain_parts == [i \in 1..Len(parts) |-> parts[i].p]
          color_parts == [i \in 1..Len(parts) |-> parts[i].c]
      IN  [plain |-> <<"(">> \o join_space(plain_parts) \o <<")">>,
           colored |-> <<"(">> \o join_space(color_parts) \o <<")">>]

----------------------------------------------------------------------------
(* format_relative_time *)

MINUTE == 60

HOUR == 3600

DAY == 86400

WEEK == 604800

MONTH == 2629746

YEAR == 31557600

JUST_NOW == 5

\* recency_of with the Days and Weeks arms exchanged
recency_of_days_weeks_swapped(past, secs) ==
    IF ~past THEN "Future"
    ELSE IF secs < JUST_NOW THEN "JustNow"
    ELSE IF secs < MINUTE THEN "Seconds"
    ELSE IF secs < HOUR THEN "Minutes"
    ELSE IF secs < DAY THEN "Hours"
    ELSE IF secs < WEEK THEN "Weeks"
    ELSE IF secs < MONTH THEN "Days"
    ELSE IF secs < YEAR THEN "Months"
    ELSE "Years"

\* recency_of with every comparison <= instead of <
recency_of_inclusive(past, secs) ==
    IF ~past THEN "Future"
    ELSE IF secs <= JUST_NOW THEN "JustNow"
    ELSE IF secs <= MINUTE THEN "Seconds"
    ELSE IF secs <= HOUR THEN "Minutes"
    ELSE IF secs <= DAY THEN "Hours"
    ELSE IF secs <= WEEK THEN "Days"
    ELSE IF secs <= MONTH THEN "Weeks"
    ELSE IF secs <= YEAR THEN "Months"
    ELSE "Years"

\* the recency chosen by lines 576-594
recency_of(past, secs) ==
    IF ~past THEN "Future"
    ELSE IF secs < JUST_NOW THEN "JustNow"
    ELSE IF secs < MINUTE THEN "Seconds"
    ELSE IF secs < HOUR THEN "Minutes"
    ELSE IF secs < DAY THEN "Hours"
    ELSE IF secs < WEEK THEN "Days"
    ELSE IF secs < MONTH THEN "Weeks"
    ELSE IF secs < YEAR THEN "Months"
    ELSE "Years"

plural(value) == IF value = 1 THEN <<>> ELSE <<"s">>

\* the (value, unit) match of the future branch, lines 599-605
future_unit(s) ==
    IF s < MINUTE THEN [value |-> s, unit |-> <<"s","e","c","o","n","d">>]
    ELSE IF s < HOUR THEN [value |-> s \div MINUTE, unit |-> <<"m","i","n","u","t","e">>]
    ELSE IF s < DAY THEN [value |-> s \div HOUR, unit |-> <<"h","o","u","r">>]
    ELSE IF s < WEEK THEN [value |-> s \div DAY, unit |-> <<"d","a","y">>]
    ELSE [value |-> s \div WEEK, unit |-> <<"w","e","e","k">>]

\* the (value, unit) match of the past branch, lines 609-617
past_unit(s) ==
    IF s < MINUTE THEN [value |-> s, unit |-> <<"s","e","c","o","n","d">>]
    ELSE IF s < HOUR THEN [value |-> s \div MINUTE, unit |-> <<"m","i","n","u","t","e">>]
    ELSE IF s < DAY THEN [value |-> s \div HOUR, unit |-> <<"h","o","u","r">>]
    ELSE IF s < WEEK THEN [value |-> s \div DAY, unit |-> <<"d","a","y">>]
    ELSE IF s < MONTH THEN [value |-> s \div WEEK, unit |-> <<"w","e","e","k">>]
    ELSE IF s < YEAR THEN [value |-> s \div MONTH, unit |-> <<"m","o","n","t","h">>]
    ELSE [value |-> s \div YEAR, unit |-> <<"y","e","a","r">>]

\* format_relative_time with "just now" for the Seconds bucket too
format_relative_time_just_now_wide(t_now, ts) ==
    LET past == ts <= t_now
        secs == IF past THEN t_now - ts ELSE ts - t_now
        recency == recency_of(past, secs)
        text == IF recency \in {"JustNow", "Seconds"} THEN <<"j","u","s","t"," ","n","o","w">>
                ELSE IF ~past
                THEN LET u == future_unit(secs)
                     IN  <<"i","n"," ">> \o Digits(u.value) \o <<" ">> \o u.unit
                         \o plural(u.value)
                ELSE LET u == past_unit(secs)
                     IN  Digits(u.value) \o <<" ">> \o u.unit \o plural(u.value)
                         \o <<" ","a","g","o">>
    IN  [text |-> text, recency |-> recency]

\* format_relative_time(ts), with the clock reading t_now
format_relative_time(t_now, ts) ==
    LET past == ts <= t_now
        secs == IF past THEN t_now - ts ELSE ts - t_now
        recency == recency_of(past, secs)
        text == IF recency = "JustNow" THEN <<"j","u","s","t"," ","n","o","w">>
                ELSE IF ~past
                THEN LET u == future_unit(secs)
                     IN  <<"i","n"," ">> \o Digits(u.value) \o <<" ">> \o u.unit
                         \o plural(u.value)
                ELSE LET u == past_unit(secs)
                     IN  Digits(u.value) \o <<" ">> \o u.unit \o plural(u.value)
                         \o <<" ","a","g","o">>
    IN  [text |-> text, recency |-> recency]

----------------------------------------------------------------------------
(* format_size *)

\* A byte count is a sequence of base-1024 digits, the least significant
\* first, so that 1024^4 and the counts above it stay within the integers of
\* the checker. Every count used is below 2^53, where `size as f64` is exact.

BASE == 1024

UNITS ==
    <<[name |-> <<"B">>, exp |-> 0],
      [name |-> <<"K", "B">>, exp |-> 1],
      [name |-> <<"M", "B">>, exp |-> 2],
      [name |-> <<"G", "B">>, exp |-> 3],
      [name |-> <<"T", "B">>, exp |-> 4]>>

big_digit(b, i) == IF i <= Len(b) THEN b[i] ELSE 0

\* a >= b
big_ge(a, b) ==
    LET n == IF Len(a) >= Len(b) THEN Len(a) ELSE Len(b)
        differ == {i \in 1..n : big_digit(a, i) # big_digit(b, i)}
    IN  \/ differ = {}
        \/ LET top == CHOOSE i \in differ : \A j \in differ : j <= i
           IN  big_digit(a, top) > big_digit(b, top)

\* the value of a unit: 1024^exp
unit_value(exp) == [i \in 1..(exp + 1) |-> IF i = exp + 1 THEN 1 ELSE 0]

\* the test of line 551 with > instead of >=
size_reaches_strict(size, unit) ==
    big_ge(size, unit_value(unit.exp)) /\ ~big_ge(unit_value(unit.exp), size)

\* line 551: size >= candidate.1
size_reaches(size, unit) == big_ge(size, unit_value(unit.exp))

\* the loop of lines 549-556, from candidate i on
RECURSIVE pick_unit(_, _, _)
pick_unit(size, i, unit) ==
    IF i > Len(UNITS) THEN unit
    ELSE IF size_reaches(size, UNITS[i]) THEN pick_unit(size, i + 1, UNITS[i])
    ELSE unit

\* the whole part of size / 1024^exp
RECURSIVE big_whole(_, _)
big_whole(size, exp) ==
    IF Len(size) <= exp THEN 0
    ELSE size[exp + 1] + BASE * big_whole(Tail(size), exp)

\* the fraction of size / 1024^exp, as exp digits
big_fraction(size, exp) == [i \in 1..exp |-> big_digit(size, i)]

\* ten times a fraction: the whole part (carry) and the fraction left (rem)
RECURSIVE times_ten(_, _)
times_ten(frac, carry) ==
    IF frac = <<>> THEN [rem |-> <<>>, carry |-> carry]
    ELSE LET t == Head(frac) * 10 + carry
             rest == times_ten(Tail(frac), t \div BASE)
         IN  [rem |-> <<t % BASE>> \o rest.rem, carry |-> rest.carry]

\* a fraction against one half
cmp_half(frac) ==
    IF frac = <<>> THEN "Less"
    ELSE LET top == frac[Len(frac)]
         IN  IF 2 * top > BASE THEN "Greater"
             ELSE IF 2 * top < BASE THEN "Less"
             ELSE IF \E i \in 1..(Len(frac) - 1) : frac[i] # 0 THEN "Greater"
             ELSE "Equal"

\* float formatting rounds to the nearest, a tie to the even last digit
rounds_up(last, frac) ==
    \/ cmp_half(frac) = "Greater"
    \/ cmp_half(frac) = "Equal" /\ last % 2 = 1

\* format!("{value:.1}")
fmt_one_decimal(whole, frac) ==
    LET m == times_ten(frac, 0)
        tenth == m.carry + (IF rounds_up(m.carry, m.rem) THEN 1 ELSE 0)
    IN  IF tenth = 10 THEN Digits(whole + 1) \o <<".", "0">>
        ELSE Digits(whole) \o <<".">> \o Digits(tenth)

\* format!("{value:.0}")
fmt_no_decimal(whole, frac) ==
    Digits(whole + (IF rounds_up(whole, frac) THEN 1 ELSE 0))

format_size(size) ==
    LET unit == pick_unit(size, 1, UNITS[1])
        whole == big_whole(size, unit.exp)
        frac == big_fraction(size, unit.exp)
        text == IF whole < 10 /\ unit.name # <<"B">>
                THEN fmt_one_decimal(whole, frac)
                ELSE fmt_no_decimal(whole, frac)
    IN  text \o <<" ">> \o unit.name

----------------------------------------------------------------------------
(* collect_entries: one row per directory entry *)

\* a directory entry as read_dir and metadata give it; size is a byte count
Entry(name, is_dir, size, modified, is_executable) ==
    [name |-> name, is_dir |-> is_dir, size |-> size, modified |-> modified,
     is_executable |-> is_executable]

\* str::ends_with
ends_with(s, suffix) ==
    Len(s) >= Len(suffix) /\ SubSeq(s, Len(s) - Len(suffix) + 1, Len(s)) = suffix

\* lines 624-639
color_name(name, is_dir, is_executable, hidden) ==
    IF is_dir THEN paint(name, DIR)
    ELSE IF hidden THEN paint(name, DOTFILE)
    ELSE IF is_executable THEN paint(name, EXEC)
    ELSE IF ends_with(name, <<".", "m", "d">>) \/ ends_with(name, <<".", "t", "o", "m", "l">>)
    THEN paint(name, WARN)
    ELSE paint(name, FILE)

\* lines 690-703
color_modified(text, recency) ==
    LET color == CASE recency \in {"JustNow", "Seconds"} -> MODIFIED_RECENT
                   [] recency = "Minutes" -> MODIFIED_SOON
                   [] recency = "Hours" -> MODIFIED
                   [] recency = "Days" -> MODIFIED_HOURS
                   [] recency = "Weeks" -> MODIFIED_DAYS
                   [] recency = "Months" -> MODIFIED_WEEKS
                   [] recency = "Years" -> MODIFIED_OLD
                   [] recency = "Future" -> MODIFIED_FUTURE
                   [] recency = "Unknown" -> MODIFIED
    IN  paint(text, color)

\* lines 180-193: the name with the status suffix of its record, if any
name_with_git_plain(name, info) ==
    IF info.some /\ name \in DOMAIN info.val
    THEN LET plain_suffix == format_git(info.val[name]).plain
         IN  IF plain_suffix = <<>> THEN name
             ELSE name \o <<" ">> \o plain_suffix
    ELSE name

\* name_with_git_colored appending the colored suffix of every record
name_with_git_colored_always(name, name_colored, info) ==
    IF info.some /\ name \in DOMAIN info.val
    THEN name_colored \o <<" ">> \o format_git(info.val[name]).colored
    ELSE name_colored

\* lines 180-193: the colored name with the colored suffix of its record, if any
name_with_git_colored(name, name_colored, info) ==
    IF info.some /\ name \in DOMAIN info.val
    THEN LET suffix == format_git(info.val[name])
         IN  IF suffix.plain = <<>> THEN name_colored
             ELSE name_colored \o <<" ">> \o suffix.colored
    ELSE name_colored

\* name.starts_with('.')
is_hidden(name) == name # <<>> /\ name[1] = "."

\* lines 161-207: the EntryRow pushed for an entry
entry_row(e, info, t_now) ==
    LET name_colored == color_name(e.name, e.is_dir, e.is_executable, is_hidden(e.name))
        type_plain == IF e.is_dir THEN <<"d","i","r">> ELSE <<"f","i","l","e">>
        modified == IF e.modified.some
                    THEN format_relative_time(t_now, e.modified.val)
                    ELSE [text |-> <<"u","n","k","n","o","w","n">>, recency |-> "Unknown"]
    IN  [name_plain |-> e.name,
         name_with_git_plain |-> name_with_git_plain(e.name, info),
         name_with_git_colored |-> name_with_git_colored(e.name, name_colored, info),
         entry_type_plain |-> type_plain,
         entry_type_colored |-> paint(type_plain, TYPE),
         size_plain |-> format_size(e.size),
         size_colored |-> paint(format_size(e.size), SIZE),
         modified_plain |-> modified.text,
         modified_colored |-> color_modified(modified.text, modified.recency),
         modified_time |-> e.modified,
         is_dir |-> e.is_dir]

\* one turn of the loop over dir_reader, lines 146-208: an error, a skipped
\* dotfile (Ok(None)) or the row to push; outcome is what the filesystem answers
read_entry(e, outcome, include_hidden, info, t_now) ==
    IF outcome = "entry_err" THEN Err("cannot read entry")
    ELSE IF ~include_hidden /\ is_hidden(e.name) THEN Ok(None)
    ELSE IF outcome = "type_err" THEN Err("cannot get type for")
    ELSE IF outcome = "metadata_err" THEN Err("cannot read metadata for")
    ELSE Ok(Some(entry_row(e, info, t_now)))

----------------------------------------------------------------------------
(* sort_rows *)

\* compare_modified_desc with two known timestamps compared oldest first
compare_modified_asc(a, b) ==
    IF a.some /\ b.some THEN int_cmp(a.val, b.val)
    ELSE IF a.some /\ ~b.some THEN "Less"
    ELSE IF ~a.some /\ b.some THEN "Greater"
    ELSE "Equal"

compare_modified_desc(a, b) ==
    IF a.some /\ b.some THEN int_cmp(b.val, a.val)
    ELSE IF a.some /\ ~b.some THEN "Less"
    ELSE IF ~a.some /\ b.some THEN "Greater"
    ELSE "Equal"

\* row_cmp without the directory-before-file arms
row_cmp_without_kind(a, b, sort_modified, reverse) ==
    LET by_name == str_cmp(to_lowercase(a.name_with_git_plain),
                           to_lowercase(b.name_with_git_plain))
        cmp == IF sort_modified
               THEN then_with(compare_modified_desc(a.modified_time, b.modified_time),
                              by_name)
               ELSE by_name
    IN  IF reverse THEN ord_reverse(cmp) ELSE cmp

\* the closure handed to sort_by, lines 216-231
row_cmp(a, b, sort_modified, reverse) ==
    LET by_name == str_cmp(to_lowercase(a.name_with_git_plain),
                           to_lowercase(b.name_with_git_plain))
        cmp == IF sort_modified
               THEN then_with(compare_modified_desc(a.modified_time, b.modified_time),
                              by_name)
               ELSE IF a.is_dir /\ ~b.is_dir THEN "Less"
               ELSE IF ~a.is_dir /\ b.is_dir THEN "Greater"
               ELSE by_name
    IN  IF reverse THEN ord_reverse(cmp) ELSE cmp

\* slice::sort_by is stable: x goes behind the last row it is not Less than
stable_insert(sorted, x, sort_modified, reverse) ==
    LET behind == {i \in 1..Len(sorted) :
                     row_cmp(x, sorted[i], sort_modified, reverse) # "Less"}
        k == IF behind = {} THEN 0
             ELSE CHOOSE i \in behind : \A j \in behind : j <= i
    IN  SubSeq(sorted, 1, k) \o <<x>> \o SubSeq(sorted, k + 1, Len(sorted))

RECURSIVE sort_from(_, _, _, _)
sort_from(sorted, rest, sort_modified, reverse) ==
    IF rest = <<>> THEN sorted
    ELSE sort_from(stable_insert(sorted, Head(rest), sort_modified, reverse),
                   Tail(rest), sort_modified, reverse)

sort_rows(rs, sort_modified, reverse) == sort_from(<<>>, rs, sort_modified, reverse)

----------------------------------------------------------------------------
(* Paths and scope_git_entries *)

\* the text of s cut at every "/" (empty pieces included)
RECURSIVE split_slash(_, _)
split_slash(s, piece) ==
    IF s = <<>> THEN <<piece>>
    ELSE IF Head(s) = "/" THEN <<piece>> \o split_slash(Tail(s), <<>>)
    ELSE split_slash(Tail(s), Append(piece, Head(s)))

\* Path::components: a root first if the text starts with "/", no empty
\* piece, and no "." piece except the first one of a relative path
components(s) ==
    LET pieces == split_slash(s, <<>>)
        rooted == s # <<>> /\ Head(s) = "/"
        keep(i) == /\ pieces[i] # <<>>
                   /\ (pieces[i] = <<".">> => (i = 1 /\ ~rooted))
        RECURSIVE from(_)
        from(i) == IF i > Len(pieces) THEN <<>>
                   ELSE IF keep(i) THEN <<pieces[i]>> \o from(i + 1)
                   ELSE from(i + 1)
    IN  (IF rooted THEN <<(<<"/">>)>> ELSE <<>>) \o from(1)

\* Path::strip_prefix, on components
strip_prefix(path, base) ==
    IF Len(base) <= Len(path) /\ SubSeq(path, 1, Len(base)) = base
    THEN Ok(SubSeq(path, Len(base) + 1, Len(path)))
    ELSE Err("StripPrefixError")

\* sum_opts keeping the later count of two present ones
sum_opts_overwriting(a, b) ==
    IF a.some /\ b.some THEN Some(b.val)
    ELSE IF a.some THEN Some(a.val)
    ELSE IF b.some THEN Some(b.val)
    ELSE None

sum_opts(a, b) ==
    IF a.some /\ b.some THEN Some(a.val + b.val)
    ELSE IF a.some THEN Some(a.val)
    ELSE IF b.some THEN Some(b.val)
    ELSE None

\* scope_relative stripping the base as text instead of by components
scope_relative_by_text(path_str, base) ==
    IF base = <<>> THEN Ok(components(path_str))
    ELSE IF Len(base) <= Len(path_str) /\ SubSeq(path_str, 1, Len(base)) = base
    THEN Ok(components(SubSeq(path_str, Len(base) + 1, Len(path_str))))
    ELSE Err("StripPrefixError")

\* lines 372-378: the path relative to the listed directory, or Err (continue)
scope_relative(path_str, base) ==
    IF base = <<>> THEN Ok(components(path_str))
    ELSE strip_prefix(components(path_str), components(base))

\* HashMap::insert and the entry API: the map with key k bound to v
map_put(map, k, v) == [x \in DOMAIN map \cup {k} |-> IF x = k THEN v ELSE map[x]]

\* lines 371-392: one turn of the loop, for the path q and its record
scope_step(acc, map, base, q) ==
    LET rel == scope_relative(q, base)
    IN  IF ~rel.ok THEN acc
        ELSE IF rel.val = <<>> THEN acc
        ELSE LET key == rel.val[1]
                 entry == IF key \in DOMAIN acc THEN acc[key]
                          ELSE GitStatus(None, None, FALSE, FALSE)
                 st == map[q]
             IN  map_put(acc, key,
                         GitStatus(sum_opts(entry.added, st.added),
                                   sum_opts(entry.deleted, st.deleted),
                                   entry.dirty \/ st.dirty,
                                   entry.untracked \/ st.untracked))

\* the loop of line 370 over the paths in the order the map yields them
RECURSIVE scope_fold(_, _, _, _)
scope_fold(acc, map, base, order) ==
    IF order = <<>> THEN acc
    ELSE scope_fold(scope_step(acc, map, base, Head(order)), map, base, Tail(order))

\* scope_git_entries when map.into_iter() yields the paths in this order
scope_git_entries_in(map, base, order) == scope_fold(<<>>, map, base, order)

\* the orders in which a HashMap of these keys may be iterated: all of them
IterationOrders(keys) ==
    {o \in [1..Cardinality(keys) -> keys] : \A i, j \in DOMAIN o : o[i] = o[j] => i = j}

scope_git_entries(map, base) ==
    scope_git_entries_in(map, base, CHOOSE o \in IterationOrders(DOMAIN map) : TRUE)

----------------------------------------------------------------------------
(* load_git_info *)

\* str::starts_with
starts_with(s, prefix) ==
    Len(s) >= Len(prefix) /\ SubSeq(s, 1, Len(prefix)) = prefix

\* char::is_whitespace on the characters that occur in git's output
is_whitespace(c) == c \in {" ", "\t", "\r"}

\* str::trim_start, str::trim_end and str::trim
RECURSIVE trim_start(_)
trim_start(s) ==
    IF s # <<>> /\ is_whitespace(Head(s)) THEN trim_start(Tail(s)) ELSE s

RECURSIVE trim_end(_)
trim_end(s) ==
    IF s # <<>> /\ is_whitespace(s[Len(s)]) THEN trim_end(SubSeq(s, 1, Len(s) - 1)) ELSE s

trim(s) == trim_end(trim_start(s))

\* the positions at which pat occurs in s
occurrences(s, pat) ==
    {i \in 1..(Len(s) - Len(pat) + 1) : SubSeq(s, i, i + Len(pat) - 1) = pat}

\* str::contains
contains(s, pat) == occurrences(s, pat) # {}

\* str::rsplit_once: the texts before and after the last occurrence of pat
rsplit_once(s, pat) ==
    IF ~contains(s, pat) THEN None
    ELSE LET i == CHOOSE x \in occurrences(s, pat) : \A y \in occurrences(s, pat) : y <= x
         IN  Some(<<SubSeq(s, 1, i - 1), SubSeq(s, i + Len(pat), Len(s))>>)

\* str::split('\t'): the text of s cut at every tab (empty pieces included)
RECURSIVE split_tab(_, _)
split_tab(s, piece) ==
    IF s = <<>> THEN <<piece>>
    ELSE IF Head(s) = "\t" THEN <<piece>> \o split_tab(Tail(s), <<>>)
    ELSE split_tab(Tail(s), Append(piece, Head(s)))

is_digit(c) == c \in {"0", "1", "2", "3", "4", "5", "6", "7", "8", "9"}

\* the number written by a text of decimal digits
RECURSIVE decimal_value(_)
decimal_value(s) ==
    IF s = <<>> THEN 0
    ELSE 10 * decimal_value(SubSeq(s, 1, Len(s) - 1)) + (Code[s[Len(s)]] - Code["0"])

\* str::parse::<u64>().ok(): digits, after an optional "+"; the texts read here
\* are short, so the value fits
parse_u64(s) ==
    LET body == IF s # <<>> /\ Head(s) = "+" THEN Tail(s) ELSE s
    IN  IF body = <<>> THEN None
        ELSE IF \E i \in 1..Len(body) : ~is_digit(body[i]) THEN None
        ELSE Some(decimal_value(body))

\* lines 288-315: one turn of the loop over the lines of git status
status_line(map, line) ==
    IF starts_with(line, <<"!", "!">>) THEN map
    ELSE IF Len(line) < 3 THEN map
    ELSE LET code == SubSeq(line, 1, 2)
             raw_path == trim(SubSeq(line, 4, Len(line)))
             arrow == <<" ", "-", ">", " ">>
             path == IF contains(raw_path, arrow)
                     THEN rsplit_once(raw_path, arrow).val[2]
                     ELSE raw_path
             untracked == code = <<"?", "?">>
             dirty == trim(code) # <<>>
         IN  map_put(map, path, GitStatus(None, None, dirty, untracked))

\* lines 286-317
RECURSIVE status_lines(_, _)
status_lines(map, lines) ==
    IF lines = <<>> THEN map
    ELSE status_lines(status_line(map, Head(lines)), Tail(lines))

\* lines 275-318; e.status_out holds the lines git status printed
read_git_status(e) ==
    IF e.status = "spawn_err" THEN Err("failed to run git status")
    ELSE IF e.status = "failed" THEN Err("git status failed")
    ELSE Ok(status_lines(<<>>, e.status_out))

\* Option::or
opt_or(a, b) == IF a.some THEN a ELSE b

\* numstat_line keeping a count the record already has
numstat_line_first_wins(map, line) ==
    LET parts == split_tab(line, <<>>)
    IN  IF Len(parts) < 3 THEN map
        ELSE LET added == parse_u64(parts[1])
                 deleted == parse_u64(parts[2])
                 path == parts[3]
             IN  IF ~added.some /\ ~deleted.some THEN map
                 ELSE IF path \in DOMAIN map
                 THEN map_put(map, path,
                              GitStatus(opt_or(map[path].added, added),
                                        opt_or(map[path].deleted, deleted),
                                        TRUE, map[path].untracked))
                 ELSE map_put(map, path, GitStatus(added, deleted, TRUE, FALSE))

\* numstat_line leaving the dirty flag as it finds it
numstat_line_not_dirtying(map, line) ==
    LET parts == split_tab(line, <<>>)
    IN  IF Len(parts) < 3 THEN map
        ELSE LET added == parse_u64(parts[1])
                 deleted == parse_u64(parts[2])
                 path == parts[3]
             IN  IF ~added.some /\ ~deleted.some THEN map
                 ELSE IF path \in DOMAIN map
                 THEN map_put(map, path,
                              GitStatus(opt_or(added, map[path].added),
                                        opt_or(deleted, map[path].deleted),
                                        map[path].dirty, map[path].untracked))
                 ELSE map_put(map, path, GitStatus(added, deleted, FALSE, FALSE))

\* lines 332-353: one turn of the loop over the lines of git diff --numstat
numstat_line(map, line) ==
    LET parts == split_tab(line, <<>>)
    IN  IF Len(parts) < 3 THEN map
        ELSE LET added == parse_u64(parts[1])
                 deleted == parse_u64(parts[2])
                 path == parts[3]
             IN  IF ~added.some /\ ~deleted.some THEN map
                 ELSE IF path \in DOMAIN map
                 THEN map_put(map, path,
                              GitStatus(opt_or(added, map[path].added),
                                        opt_or(deleted, map[path].deleted),
                                        TRUE, map[path].untracked))
                 ELSE map_put(map, path, GitStatus(added, deleted, TRUE, FALSE))

\* lines 331-354
RECURSIVE numstat_lines(_, _)
numstat_lines(map, lines) ==
    IF lines = <<>> THEN map
    ELSE numstat_lines(numstat_line(map, Head(lines)), Tail(lines))

\* lines 320-357; e.diff_out holds the lines git diff --numstat printed
merge_numstat(map, e) ==
    IF e.diff = "spawn_err" THEN Err("failed to run git diff")
    ELSE IF e.diff = "failed" THEN Err("git diff failed")
    ELSE Ok(numstat_lines(map, e.diff_out))

\* load_git_info going on without status when git status fails
load_git_info_degrading(e) ==
    IF e.canonicalize = "err" THEN Err("cannot canonicalize")
    ELSE IF e.rev_parse # "ok" THEN Ok(None)
    ELSE IF ~e.inside THEN Ok(None)
    ELSE LET st == read_git_status(e)
         IN  IF ~st.ok THEN Ok(None)
             ELSE LET merged == merge_numstat(st.val, e)
                  IN  IF ~merged.ok THEN merged
                      ELSE Ok(Some(scope_git_entries(merged.val, e.rel_base)))

load_git_info(e) ==
    IF e.canonicalize = "err" THEN Err("cannot canonicalize")
    ELSE IF e.rev_parse # "ok" THEN Ok(None)
    ELSE IF ~e.inside THEN Ok(None)
    ELSE LET st == read_git_status(e)
         IN  IF ~st.ok THEN st
             ELSE LET merged == merge_numstat(st.val, e)
                  IN  IF ~merged.ok THEN merged
                      ELSE Ok(Some(scope_git_entries(merged.val, e.rel_base)))

----------------------------------------------------------------------------
(* render_table and main *)

\* the UTF-8 length of a character of a plain text: the box-drawing
\* characters take three bytes, U+00E9 takes two, an ASCII character one
utf8_len(c) ==
    IF c \in {"U+2500", "U+2502", "U+250C", "U+252C", "U+2510", "U+251C", "U+253C",
              "U+2524", "U+2514", "U+2534", "U+2518"} THEN 3
    ELSE IF c = "U+00E9" THEN 2
    ELSE 1

\* str::len: the length of a plain text in bytes
RECURSIVE str_len(_)
str_len(s) == IF s = <<>> THEN 0 ELSE utf8_len(Head(s)) + str_len(Tail(s))

\* str::repeat
repeat(s, n) == [i \in 1..(n * Len(s)) |-> s[((i - 1) % Len(s)) + 1]]

\* Iterator::max over the lengths of one column, then unwrap_or and max with
\* the length of the header label: lines 409-432
column_width(lens, default, label) ==
    LET most == IF lens = {} THEN default
                ELSE CHOOSE x \in lens : \A y \in lens : y <= x
        least == str_len(label)
    IN  IF most >= least THEN most ELSE least

\* line 408
index_width(rs) ==
    LET last == IF Len(rs) = 0 THEN 0 ELSE Len(rs) - 1
        digits == str_len(Digits(last))
    IN  IF digits >= 1 THEN digits ELSE 1

\* lines 408-433
table_widths(rs) ==
    <<index_width(rs),
      column_width({str_len(rs[i].name_with_git_plain) : i \in 1..Len(rs)}, 4,
                   <<"n", "a", "m", "e">>),
      column_width({str_len(rs[i].entry_type_plain) : i \in 1..Len(rs)}, 4,
                   <<"t", "y", "p", "e">>),
      column_width({str_len(rs[i].size_plain) : i \in 1..Len(rs)}, 4,
                   <<"s", "i", "z", "e">>),
      column_width({str_len(rs[i].modified_plain) : i \in 1..Len(rs)}, 8,
                   <<"m", "o", "d", "i", "f", "i", "e", "d">>)>>

\* lines 499-517; kind is "Top", "Middle" or "Bottom"
horizontal_border(widths, kind) ==
    LET start == CASE kind = "Top" -> "U+250C" [] kind = "Middle" -> "U+251C"
                   [] kind = "Bottom" -> "U+2514"
        sep == CASE kind = "Top" -> "U+252C" [] kind = "Middle" -> "U+253C"
                 [] kind = "Bottom" -> "U+2534"
        end == CASE kind = "Top" -> "U+2510" [] kind = "Middle" -> "U+2524"
                 [] kind = "Bottom" -> "U+2518"
        RECURSIVE from(_)
        from(idx) ==
            IF idx > Len(widths) THEN <<>>
            ELSE repeat(<<"U+2500">>, widths[idx] + 2)
                 \o <<(IF idx = Len(widths) THEN end ELSE sep)>>
                 \o from(idx + 1)
    IN  paint(<<start>> \o from(1), BORDER)

\* lines 532-538
pad_cell(colored, plain, width, align) ==
    LET pad == IF width >= str_len(plain) THEN width - str_len(plain) ELSE 0
    IN  IF align = "Left" THEN colored \o repeat(<<" ">>, pad)
        ELSE repeat(<<" ">>, pad) \o colored

\* a cell: its plain text, its colored text and its alignment
Cell(plain, colored, align) == [plain |-> plain, colored |-> colored, align |-> align]

\* lines 519-530
render_row(columns, widths) ==
    LET RECURSIVE from(_)
        from(idx) ==
            IF idx > Len(columns) \/ idx > Len(widths) THEN <<>>
            ELSE <<" ">>
                 \o pad_cell(columns[idx].colored, columns[idx].plain, widths[idx],
                             columns[idx].align)
                 \o <<" ">> \o paint(<<"U+2502">>, BORDER)
                 \o from(idx + 1)
    IN  paint(<<"U+2502">>, BORDER) \o from(1)

\* lines 436-458
header_cells ==
    <<Cell(<<"#">>, paint(<<"#">>, INDEX), "Right"),
      Cell(<<"n", "a", "m", "e">>, paint(<<"n", "a", "m", "e">>, HEADER), "Left"),
      Cell(<<"t", "y", "p", "e">>, paint(<<"t", "y", "p", "e">>, HEADER), "Left"),
      Cell(<<"s", "i", "z", "e">>, paint(<<"s", "i", "z", "e">>, HEADER), "Right"),
      Cell(<<"m", "o", "d", "i", "f", "i", "e", "d">>,
           paint(<<"m", "o", "d", "i", "f", "i", "e", "d">>, HEADER), "Left")>>

\* lines 463-482: the cells of the row at index idx
data_cells(idx, row) ==
    <<Cell(Digits(idx), paint(Digits(idx), INDEX), "Right"),
      Cell(row.name_with_git_plain, row.name_with_git_colored, "Left"),
      Cell(row.entry_type_plain, row.entry_type_colored, "Left"),
      Cell(row.size_plain, row.size_colored, "Right"),
      Cell(row.modified_plain, row.modified_colored, "Left")>>

\* the lines render_table prints, in order: lines 435-490
table_lines(rs) ==
    LET widths == table_widths(rs)
    IN  <<horizontal_border(widths, "Top"),
          render_row(header_cells, widths),
          horizontal_border(widths, "Middle")>>
        \o [i \in 1..Len(rs) |-> render_row(data_cells(i - 1, rs[i]), widths)]
        \o <<horizontal_border(widths, "Bottom")>>

\* main returning normally whatever run returned
main_exit_code_always_zero(res) == 0

\* the exit code main ends with, given what run returned
main_exit_code(res) == IF res.ok THEN 0 ELSE 1

----------------------------------------------------------------------------
(* Bounds and input sets *)

MaxEntries == 3

MaxTime == 2

Now == 40000000

Times == {None} \cup {Some(Now - t) : t \in 1..MaxTime}

SortNames == {<<"a">>, <<"A">>, <<"B">>, <<"B", " ", "!">>}

RunNames == {<<".", "h">>, <<"a">>}

\* the directories of at most MaxEntries children, no two of one name
Dirs(names) ==
    UNION {{{Entry(n, f[n][1], <<0>>, f[n][2], FALSE) : n \in S} : f \in [S -> BOOLEAN \X Times]} :
             S \in {T \in SUBSET names : Cardinality(T) <= MaxEntries}}

Dirty == GitStatus(None, None, TRUE, FALSE)

SortGitInfo == Some([n \in {<<"B">>} |-> Dirty])

Flags == [include_hidden : BOOLEAN, sort_modified : BOOLEAN, reverse : BOOLEAN,
          git : BOOLEAN]

\* a run in which every call succeeds, and the runs in which one call does not
GoodEnv ==
    [canonicalize |-> "ok", rev_parse |-> "ok", inside |-> TRUE, status |-> "ok",
     diff |-> "ok", read_dir |-> "ok",
     status_out |-> <<<<" ", "M", " ", "a", "/", "b">>>>,
     diff_out |-> <<<<"1", "\t", "2", "\t", "a", "/", "b">>>>, rel_base |-> <<>>]

Envs ==
    {GoodEnv,
     [GoodEnv EXCEPT !.canonicalize = "err"],
     [GoodEnv EXCEPT !.rev_parse = "spawn_err"],
     [GoodEnv EXCEPT !.rev_parse = "failed"],
     [GoodEnv EXCEPT !.inside = FALSE],
     [GoodEnv EXCEPT !.status = "spawn_err"],
     [GoodEnv EXCEPT !.status = "failed"],
     [GoodEnv EXCEPT !.diff = "spawn_err"],
     [GoodEnv EXCEPT !.diff = "failed"],
     [GoodEnv EXCEPT !.read_dir = "err"]}

EntryOutcomes == {"ok", "entry_err", "type_err", "metadata_err"}

----------------------------------------------------------------------------
(* Actions of run and main *)

\* line 124
LoadGit ==
    /\ pc = "main"
    /\ LET r == IF cli.git THEN load_git_info(env) ELSE Ok(None)
       IN  IF r.ok
           THEN /\ git_info' = r.val
                /\ pc' = "read_dir"
                /\ UNCHANGED result
           ELSE /\ result' = r
                /\ pc' = "fail"
                /\ UNCHANGED git_info
    /\ UNCHANGED <<cli, env, todo, input, rows, stdout, stderr, exit_code, now>>
    /\ UNCHANGED <<timeVars, fmtVars, scopeVars, gitVars, sizeVars>>

\* fs::read_dir, line 144
OpenDir ==
    /\ pc = "read_dir"
    /\ IF env.read_dir = "ok"
       THEN pc' = "entries" /\ UNCHANGED result
       ELSE pc' = "fail" /\ result' = Err("cannot read")
    /\ UNCHANGED <<cli, env, git_info, todo, input, rows, stdout, stderr, exit_code, now>>
    /\ UNCHANGED <<timeVars, fmtVars, scopeVars, gitVars, sizeVars>>

\* one turn of the loop over dir_reader, lines 146-208
ReadEntry ==
    /\ pc = "entries"
    /\ \E e \in todo, outcome \in EntryOutcomes :
         LET r == read_entry(e, outcome, cli.include_hidden, git_info, now)
         IN  /\ todo' = todo \ {e}
             /\ IF r.ok
                THEN /\ rows' = IF r.val.some THEN Append(rows, r.val.val) ELSE rows
                     /\ UNCHANGED <<pc, result>>
                ELSE /\ result' = r
                     /\ pc' = "fail"
                     /\ UNCHANGED rows
    /\ UNCHANGED <<cli, env, git_info, input, stdout, stderr, exit_code, now>>
    /\ UNCHANGED <<timeVars, fmtVars, scopeVars, gitVars, sizeVars>>

\* dir_reader is exhausted: sort_rows, line 210, and collect_entries returns
SortRows ==
    /\ pc = "entries"
    /\ todo = {}
    /\ input' = rows
    /\ rows' = sort_rows(rows, cli.sort_modified, cli.reverse)
    /\ pc' = "render"
    /\ UNCHANGED <<cli, env, git_info, todo, result, stdout, stderr, exit_code, now>>
    /\ UNCHANGED <<timeVars, fmtVars, scopeVars, gitVars, sizeVars>>

\* one println! of render_table
RenderLine ==
    /\ pc = "render"
    /\ Len(stdout) < Len(table_lines(rows))
    /\ stdout' = Append(stdout, table_lines(rows)[Len(stdout) + 1])
    /\ UNCHANGED <<pc, cli, env, git_info, todo, input, rows, result, stderr, exit_code, now>>
    /\ UNCHANGED <<timeVars, fmtVars, scopeVars, gitVars, sizeVars>>

\* run returns Ok(()) and main returns
Exit ==
    /\ pc = "render"
    /\ Len(stdout) = Len(table_lines(rows))
    /\ exit_code' = Some(main_exit_code(result))
    /\ pc' = "done"
    /\ UNCHANGED <<cli, env, git_info, todo, input, rows, result, stdout, stderr, now>>
    /\ UNCHANGED <<timeVars, fmtVars, scopeVars, gitVars, sizeVars>>

\* run returned Err(err): lines 116-119
Fail ==
    /\ pc = "fail"
    /\ stderr' = Append(stderr, [tag |-> "error:", err |-> result.err])
    /\ exit_code' = Some(main_exit_code(result))
    /\ pc' = "done"
    /\ UNCHANGED <<cli, env, git_info, todo, input, rows, result, stdout, now>>
    /\ UNCHANGED <<timeVars, fmtVars, scopeVars, gitVars, sizeVars>>

TimeIdle == prev = None /\ cur = None

FmtIdle == fmt_status = None /\ fmt_suffix = None

ScopeIdle == status_map = <<>> /\ rel_base = <<>> /\ scoped = None

GitIdle == gpc = "idle" /\ lines_read = <<>> /\ map_before = <<>>

SizeIdle == size_in = None /\ size_text = None

RunIdle ==
    /\ pc = "idle"
    /\ cli = [include_hidden |-> FALSE, sort_modified |-> FALSE, reverse |-> FALSE,
              git |-> FALSE]
    /\ env = GoodEnv
    /\ git_info = None
    /\ todo = {}
    /\ input = <<>>
    /\ rows = <<>>
    /\ result = Ok(<<>>)
    /\ stdout = <<>>
    /\ stderr = <<>>
    /\ exit_code = None
    /\ now = Now

Init ==
    /\ pc = "main"
    /\ cli \in Flags
    /\ env \in Envs
    /\ git_info = None
    /\ todo \in Dirs(RunNames)
    /\ input = <<>>
    /\ rows = <<>>
    /\ result = Ok(<<>>)
    /\ stdout = <<>>
    /\ stderr = <<>>
    /\ exit_code = None
    /\ now = Now
    /\ TimeIdle /\ FmtIdle /\ ScopeIdle /\ GitIdle /\ SizeIdle

Next == LoadGit \/ OpenDir \/ ReadEntry \/ SortRows \/ RenderLine \/ Exit \/ Fail

Spec == Init /\ [][Next]_vars

\* collect_entries alone, from the loop over dir_reader to sort_rows
InitSort ==
    /\ pc = "entries"
    /\ cli \in {f \in Flags : f.git /\ f.include_hidden}
    /\ env = GoodEnv
    /\ git_info = SortGitInfo
    /\ todo \in Dirs(SortNames)
    /\ input = <<>>
    /\ rows = <<>>
    /\ result = Ok(<<>>)
    /\ stdout = <<>>
    /\ stderr = <<>>
    /\ exit_code = None
    /\ now = Now
    /\ TimeIdle /\ FmtIdle /\ ScopeIdle /\ GitIdle /\ SizeIdle

NextSort == ReadEntry \/ SortRows

SpecSort == InitSort /\ [][NextSort]_vars

----------------------------------------------------------------------------
(* format_relative_time alone *)

Slack == 1

Thresholds == {JUST_NOW, MINUTE, HOUR, DAY, WEEK, MONTH, YEAR}

\* whole-second ages: around zero and around every threshold
Elapsed == (0..Slack) \cup UNION {{t - x, t + x} : t \in Thresholds, x \in 0..Slack}

\* whole-second distances into the future
Ahead == {t + x : t \in {0, MINUTE, HOUR, DAY, WEEK}, x \in 1..Slack}

Instants == {Now - d : d \in Elapsed} \cup {Now + d : d \in Ahead}

FormatTime ==
    /\ \E ts \in Instants :
         /\ prev' = cur
         /\ cur' = Some([ts |-> ts, out |-> format_relative_time(now, ts)])
    /\ UNCHANGED <<runVars, fmtVars, scopeVars, gitVars, sizeVars>>

InitTime == RunIdle /\ TimeIdle /\ FmtIdle /\ ScopeIdle /\ GitIdle /\ SizeIdle

NextTime == FormatTime

SpecTime == InitTime /\ [][NextTime]_vars

----------------------------------------------------------------------------
(* format_git alone *)

MaxCount == 11

Counts == {None} \cup {Some(n) : n \in 0..MaxCount}

Statuses ==
    {GitStatus(a, d, dirty, untracked) :
        a \in Counts, d \in Counts, dirty \in BOOLEAN, untracked \in BOOLEAN}

FormatGit ==
    /\ fmt_status # None
    /\ fmt_suffix = None
    /\ fmt_suffix' = Some(format_git(fmt_status))
    /\ UNCHANGED <<fmt_status, runVars, timeVars, scopeVars, gitVars, sizeVars>>

InitFmt ==
    /\ fmt_status \in Statuses
    /\ fmt_suffix = None
    /\ RunIdle /\ TimeIdle /\ ScopeIdle /\ GitIdle /\ SizeIdle

NextFmt == FormatGit

SpecFmt == InitFmt /\ [][NextFmt]_vars

----------------------------------------------------------------------------
(* scope_git_entries alone *)

MaxDepth == 3

MaxPaths == 2

PathComps == {<<"a">>, <<"a", "b">>}

RECURSIVE join_slash(_)
join_slash(parts) ==
    IF Len(parts) = 1 THEN parts[1]
    ELSE parts[1] \o <<"/">> \o join_slash(Tail(parts))

\* repository-relative paths as git prints them; a directory ends in "/"
PathStrings ==
    LET plain == {join_slash(cs) : cs \in UNION {[1..n -> PathComps] : n \in 1..MaxDepth}}
    IN  plain \cup {q \o <<"/">> : q \in plain}

RECURSIVE SubsetsUpTo(_, _)
SubsetsUpTo(S, k) ==
    IF k = 0 THEN {{}}
    ELSE LET smaller == SubsetsUpTo(S, k - 1)
         IN  smaller \cup {T \cup {x} : T \in smaller, x \in S}

Counted == GitStatus(Some(1), Some(2), TRUE, FALSE)

\* the maps of at most MaxPaths paths, all modified or all with counts
StatusMaps ==
    {[q \in S |-> st] : S \in SubsetsUpTo(PathStrings, MaxPaths), st \in {Dirty, Counted}}

RelBases == {<<>>, <<"a">>, <<"a", "/", "a", "b">>}

ScopeGitEntries ==
    /\ gpc \in {"idle", "scope"}
    /\ scoped = None
    /\ scoped' \in {Some(scope_git_entries_in(status_map, rel_base, order)) :
                       order \in IterationOrders(DOMAIN status_map)}
    /\ UNCHANGED <<status_map, rel_base, runVars, timeVars, fmtVars, gitVars, sizeVars>>

InitScope ==
    /\ status_map \in StatusMaps
    /\ rel_base \in RelBases
    /\ scoped = None
    /\ RunIdle /\ TimeIdle /\ FmtIdle /\ GitIdle /\ SizeIdle

NextScope == ScopeGitEntries

SpecScope == InitScope /\ [][NextScope]_vars

----------------------------------------------------------------------------
(* scope_git_entries on records that share a key *)

AggPaths ==
    {<<"a">>, <<"a", "/", "a">>, <<"a", "/", "a", "b">>, <<"a", "b", "/", "a">>,
     <<"a", "/", "a", "b", "/", "a">>}

AggStatuses ==
    {Dirty, Counted,
     GitStatus(None, None, TRUE, TRUE),
     GitStatus(Some(2), None, TRUE, FALSE),
     GitStatus(None, Some(0), TRUE, FALSE),
     GitStatus(None, None, FALSE, FALSE)}

AggMaps == UNION {[S -> AggStatuses] : S \in SubsetsUpTo(AggPaths, MaxPaths)}

InitAgg ==
    /\ status_map \in AggMaps
    /\ rel_base \in RelBases
    /\ scoped = None
    /\ RunIdle /\ TimeIdle /\ FmtIdle /\ GitIdle /\ SizeIdle

SpecAgg == InitAgg /\ [][NextScope]_vars

----------------------------------------------------------------------------
(* read_git_status, merge_numstat and scope_git_entries in a row: lines 269-271 *)

MaxLines == 3

\* lines of git status --porcelain=1: modified, untracked, added, ignored,
\* renamed, a line too short to hold a path, and a line with a blank code
StatusLines ==
    {<<" ", "M", " ", "a", "/", "b">>,
     <<"?", "?", " ", "a">>,
     <<"A", " ", " ", "b">>,
     <<"!", "!", " ", "a">>,
     <<"R", " ", " ", "b", " ", "-", ">", " ", "a", "/", "b">>,
     <<"M">>,
     <<" ", " ", " ", "a">>}

\* lines of git diff --numstat HEAD: counts, other counts for the same path,
\* a binary file, one count only, and a line with two fields
NumstatLines ==
    {<<"1", "\t", "2", "\t", "a", "/", "b">>,
     <<"3", "\t", "0", "\t", "a", "/", "b">>,
     <<"-", "\t", "-", "\t", "a", "/", "b">>,
     <<"2", "\t", "-", "\t", "a">>,
     <<"1", "\t", "2">>}

\* one turn of the loop of line 287
ReadStatusLine ==
    /\ gpc = "status"
    /\ Len(lines_read) < MaxLines
    /\ \E line \in StatusLines :
         /\ status_map' = status_line(status_map, line)
         /\ lines_read' = Append(lines_read, [from |-> "status", text |-> line])
    /\ map_before' = status_map
    /\ UNCHANGED <<gpc, rel_base, scoped, runVars, timeVars, fmtVars, sizeVars>>

\* line 317: the output of git status is exhausted
EndStatus ==
    /\ gpc = "status"
    /\ gpc' = "numstat"
    /\ UNCHANGED <<lines_read, map_before, scopeVars, runVars, timeVars, fmtVars, sizeVars>>

\* one turn of the loop of line 331
MergeNumstatLine ==
    /\ gpc = "numstat"
    /\ Len(lines_read) < MaxLines
    /\ \E line \in NumstatLines :
         /\ status_map' = numstat_line(status_map, line)
         /\ lines_read' = Append(lines_read, [from |-> "numstat", text |-> line])
    /\ map_before' = status_map
    /\ UNCHANGED <<gpc, rel_base, scoped, runVars, timeVars, fmtVars, sizeVars>>

\* line 356: the output of git diff is exhausted
EndNumstat ==
    /\ gpc = "numstat"
    /\ gpc' = "scope"
    /\ UNCHANGED <<lines_read, map_before, scopeVars, runVars, timeVars, fmtVars, sizeVars>>

InitGit ==
    /\ gpc = "status"
    /\ lines_read = <<>>
    /\ map_before = <<>>
    /\ status_map = <<>>
    /\ rel_base \in RelBases
    /\ scoped = None
    /\ RunIdle /\ TimeIdle /\ FmtIdle /\ SizeIdle

NextGit == ReadStatusLine \/ EndStatus \/ MergeNumstatLine \/ EndNumstat \/ ScopeGitEntries

SpecGit == InitGit /\ [][NextGit]_vars

----------------------------------------------------------------------------
(* collect_entries with a status map of every kind of record *)

NameNames == {<<"a">>, <<".", "h">>, <<"r", ".", "m", "d">>}

\* directories of empty entries: a directory or a file, executable or not
NameDirs ==
    UNION {{{Entry(n, f[n][1], <<0>>, None, f[n][2]) : n \in S} : f \in [S -> BOOLEAN \X BOOLEAN]} :
             S \in {T \in SUBSET NameNames : Cardinality(T) <= MaxEntries}}

Clean == GitStatus(None, None, FALSE, FALSE)

Untracked == GitStatus(None, None, TRUE, TRUE)

\* no status, and the maps holding a record for two of the names
NameGitInfos ==
    {None} \cup {Some(f) : f \in [{<<"a">>, <<"r", ".", "m", "d">>}
                                     -> {Dirty, Counted, Untracked, Clean}]}

InitNames ==
    /\ pc = "entries"
    /\ cli \in {f \in Flags : f.git /\ ~f.sort_modified /\ ~f.reverse}
    /\ env = GoodEnv
    /\ git_info \in NameGitInfos
    /\ todo \in NameDirs
    /\ input = <<>>
    /\ rows = <<>>
    /\ result = Ok(<<>>)
    /\ stdout = <<>>
    /\ stderr = <<>>
    /\ exit_code = None
    /\ now = Now
    /\ TimeIdle /\ FmtIdle /\ ScopeIdle /\ GitIdle /\ SizeIdle

SpecNames == InitNames /\ [][NextSort]_vars

----------------------------------------------------------------------------
(* render_table on the rows collect_entries returns *)

ManyEntries == 11

RenderNames == {<<"a">>, <<"U+00E9">>}

\* directories of at most MaxEntries children, empty or of 1200 bytes
RenderDirs ==
    UNION {{{Entry(n, f[n][1], f[n][2], f[n][3], FALSE) : n \in S} :
              f \in [S -> BOOLEAN \X {<<0>>, <<176, 1>>} \X Times]} :
             S \in {T \in SUBSET RenderNames : Cardinality(T) <= MaxEntries}}

\* a directory of ManyEntries files f0, f1, ...: the last index has two digits
ManyFiles == {Entry(<<"f">> \o Digits(i), FALSE, <<i>>, None, FALSE) : i \in 0..(ManyEntries - 1)}

\* the entries of a directory in the order read_dir yields them
RECURSIVE read_order(_)
read_order(dir) ==
    IF dir = {} THEN <<>>
    ELSE LET e == CHOOSE x \in dir : TRUE
         IN  <<e>> \o read_order(dir \ {e})

\* what collect_entries returns for a directory when nothing fails
collected(dir, info) ==
    LET es == read_order(dir)
    IN  sort_rows([i \in 1..Len(es) |-> entry_row(es[i], info, Now)], FALSE, FALSE)

InitRender ==
    /\ pc = "render"
    /\ cli = [include_hidden |-> TRUE, sort_modified |-> FALSE, reverse |-> FALSE,
              git |-> TRUE]
    /\ env = GoodEnv
    /\ git_info \in {None, Some([n \in {<<"a">>} |-> Counted])}
    /\ todo = {}
    /\ \E dir \in RenderDirs \cup {ManyFiles} :
         /\ input = [i \in 1..Len(read_order(dir)) |-> entry_row(read_order(dir)[i], git_info, Now)]
         /\ rows = collected(dir, git_info)
    /\ result = Ok(<<>>)
    /\ stdout = <<>>
    /\ stderr = <<>>
    /\ exit_code = None
    /\ now = Now
    /\ TimeIdle /\ FmtIdle /\ ScopeIdle /\ GitIdle /\ SizeIdle

NextRender == RenderLine \/ Exit

SpecRender == InitRender /\ [][NextRender]_vars

----------------------------------------------------------------------------
(* format_size alone *)

DigitSlack == 1

\* digits around zero, around ten, at one half and below the base
SizeDigits ==
    (0..DigitSlack) \cup {10 - x : x \in 1..DigitSlack} \cup {10, 512}
    \cup {BASE - x : x \in 1..DigitSlack}

\* the byte counts of the tests of format_size
TestSizes ==
    {<<512, 0, 0, 0, 0>>, <<0, 1, 0, 0, 0>>, <<512, 1, 0, 0, 0>>, <<0, 0, 12, 0, 0>>,
     <<0, 0, 0, 5, 0>>, <<176, 1, 0, 0, 0>>, <<896, 147, 1, 0, 0>>}

Sizes == [1..Len(UNITS) -> SizeDigits] \cup TestSizes

FormatSize ==
    /\ size_in # None
    /\ size_text = None
    /\ size_text' = Some(format_size(size_in.val))
    /\ UNCHANGED <<size_in, runVars, timeVars, fmtVars, scopeVars, gitVars>>

InitSize ==
    /\ size_in \in {Some(b) : b \in Sizes}
    /\ size_text = None
    /\ RunIdle /\ TimeIdle /\ FmtIdle /\ ScopeIdle /\ GitIdle

NextSize == FormatSize

SpecSize == InitSize /\ [][NextSize]_vars

----------------------------------------------------------------------------
(* Properties *)

Reverse(q) == [i \in 1..Len(q) |-> q[Len(q) + 1 - i]]

\* q is p with its elements in another order
IsPermutation(p, q) ==
    /\ Len(p) = Len(q)
    /\ \A x \in {p[i] : i \in 1..Len(p)} \cup {q[i] : i \in 1..Len(q)} :
         Cardinality({i \in 1..Len(p) : p[i] = x}) = Cardinality({i \in 1..Len(q) : q[i] = x})

Sorted == pc = "render" /\ stdout = <<>>

LowerName(r) == to_lowercase(r.name_with_git_plain)

\* C1: the order sort_rows gives with reverse=true is the order it gives with
\* reverse=false on the same rows, read back to front, in either sort mode.
C1_ReverseIsBackToFront ==
    (Sorted /\ cli.reverse)
        => rows = Reverse(sort_rows(input, cli.sort_modified, FALSE))

\* C2: in default mode (no -t, no -r) the sorted rows are the pushed rows with
\* every directory before every file and, within one kind, in the order of the
\* lowercased display name.
C2_DefaultDirsFirstThenName ==
    (Sorted /\ ~cli.sort_modified /\ ~cli.reverse)
        => /\ IsPermutation(input, rows)
           /\ \A i, j \in 1..Len(rows) :
                i < j => /\ rows[j].is_dir => rows[i].is_dir
                         /\ rows[i].is_dir = rows[j].is_dir
                              => str_cmp(LowerName(rows[i]), LowerName(rows[j])) # "Greater"

C2_Witness ==
    /\ Sorted /\ ~cli.sort_modified /\ ~cli.reverse
    /\ Len(input) = 3
    /\ ~input[1].is_dir /\ input[2].is_dir /\ ~input[3].is_dir
    /\ input[1].name_plain = <<"B">>
    /\ input[3].name_plain = <<"B", " ", "!">>
    /\ rows = <<input[2], input[3], input[1]>>

\* the rows with every kind set to file
AsFiles(q) == [i \in 1..Len(q) |-> [q[i] EXCEPT !.is_dir = FALSE]]

\* C3: in modified-time mode (-t, no -r) every row with a known timestamp is
\* before every row without one, known timestamps are newest first, rows of one
\* timestamp (or both without) are in the order of the lowercased display name,
\* and the kinds of the rows make no difference to the order.
C3_ModifiedNewestFirst ==
    (Sorted /\ cli.sort_modified /\ ~cli.reverse)
        => /\ IsPermutation(input, rows)
           /\ \A i, j \in 1..Len(rows) :
                i < j => /\ rows[j].modified_time.some => rows[i].modified_time.some
                         /\ (rows[i].modified_time.some /\ rows[j].modified_time.some)
                              => rows[i].modified_time.val >= rows[j].modified_time.val
                         /\ rows[i].modified_time = rows[j].modified_time
                              => str_cmp(LowerName(rows[i]), LowerName(rows[j])) # "Greater"
           /\ AsFiles(rows) = sort_rows(AsFiles(input), TRUE, FALSE)

C3_Witness ==
    /\ Sorted /\ cli.sort_modified /\ ~cli.reverse
    /\ Len(input) = 3
    /\ input[1].is_dir /\ ~input[1].modified_time.some
    /\ ~input[2].is_dir /\ input[2].modified_time = Some(Now - 2)
    /\ ~input[3].is_dir /\ input[3].modified_time = Some(Now - 1)
    /\ rows = <<input[3], input[2], input[1]>>

IsPast(c) == c.val.ts <= now

Age(c) == now - c.val.ts

\* the order of the categories, as enum Recency declares them
RecencyRank(r) ==
    CASE r = "JustNow" -> 0
      [] r = "Seconds" -> 1
      [] r = "Minutes" -> 2
      [] r = "Hours" -> 3
      [] r = "Days" -> 4
      [] r = "Weeks" -> 5
      [] r = "Months" -> 6
      [] r = "Years" -> 7
      [] r = "Future" -> 8
      [] OTHER -> 9

\* C4: of two instants that are not in the future, the one that is at least as
\* old has a recency category at or after the other's, in the order
\* JustNow < Seconds < Minutes < Hours < Days < Weeks < Months < Years.
C4_RecencyMonotonic ==
    (prev.some /\ cur.some /\ IsPast(prev) /\ IsPast(cur) /\ Age(prev) <= Age(cur))
        => /\ RecencyRank(cur.val.out.recency) <= RecencyRank("Years")
           /\ RecencyRank(prev.val.out.recency) <= RecencyRank(cur.val.out.recency)

C4_Witness ==
    /\ prev.some /\ cur.some
    /\ Age(prev) = WEEK - 1 /\ Age(cur) = WEEK
    /\ prev.val.out.recency = "Days" /\ cur.val.out.recency = "Weeks"

EndsWith(text, tail) ==
    /\ Len(text) >= Len(tail)
    /\ SubSeq(text, Len(text) - Len(tail) + 1, Len(text)) = tail

\* C5, as claimed: the label of every instant that is not in the future ends in "ago".
C5_Claimed_EveryPastLabelEndsInAgo ==
    (cur.some /\ IsPast(cur)) => EndsWith(cur.val.out.text, <<"a", "g", "o">>)

\* C5, amended: the label of an instant that is not in the future ends in "ago"
\* when at least 5 whole seconds have passed, and is "just now" when fewer have.
C5_PastLabelAgoOrJustNow ==
    (cur.some /\ IsPast(cur))
        => IF Age(cur) >= 5
           THEN EndsWith(cur.val.out.text, <<" ", "a", "g", "o">>)
           ELSE cur.val.out.text = <<"j", "u", "s", "t", " ", "n", "o", "w">>

C5_Witness ==
    /\ prev.some /\ cur.some
    /\ Age(prev) = 4 /\ prev.val.out.text = <<"j", "u", "s", "t", " ", "n", "o", "w">>
    /\ Age(cur) = 5
    /\ cur.val.out.text = <<"5", " ", "s", "e", "c", "o", "n", "d", "s", " ", "a", "g", "o">>

\* the buckets on the two sides of each threshold
BucketBelow(d) ==
    CASE d = 5 -> "JustNow"
      [] d = 60 -> "Seconds"
      [] d = 3600 -> "Minutes"
      [] d = 86400 -> "Hours"
      [] d = 604800 -> "Days"
      [] d = 2629746 -> "Weeks"
      [] d = 31557600 -> "Months"

BucketAbove(d) ==
    CASE d = 5 -> "Seconds"
      [] d = 60 -> "Minutes"
      [] d = 3600 -> "Hours"
      [] d = 86400 -> "Days"
      [] d = 604800 -> "Weeks"
      [] d = 2629746 -> "Months"
      [] d = 31557600 -> "Years"

AtThreshold(c) ==
    c.some /\ IsPast(c) /\ Age(c) \in {5, 60, 3600, 86400, 604800, 2629746, 31557600}

\* C6, as claimed: an age equal to a threshold is put into the more recent of
\* the two buckets the threshold separates.
C6_Claimed_ThresholdInLowerBucket ==
    AtThreshold(cur) => cur.val.out.recency = BucketBelow(Age(cur))

\* C6, amended: an age equal to a threshold (5, 60, 3600, 86400, 604800,
\* 2629746 or 31557600 seconds) is put into the older of the two buckets the
\* threshold separates.
C6_ThresholdInUpperBucket ==
    AtThreshold(cur) => cur.val.out.recency = BucketAbove(Age(cur))

C6_Witness ==
    /\ cur.some /\ Age(cur) = 3600
    /\ cur.val.out.recency = "Hours"
    /\ cur.val.out.text = <<"1", " ", "h", "o", "u", "r", " ", "a", "g", "o">>

HasSlash(k) == \E i \in 1..Len(k) : k[i] = "/"

\* the text q is the text base, a "/", the name k, and then nothing or a "/"
\* and anything (with no base: the name k and then nothing or a "/" and anything)
NamesChild(q, base, k) ==
    LET front == (IF base = <<>> THEN <<>> ELSE base \o <<"/">>) \o k
    IN  /\ Len(front) <= Len(q)
        /\ SubSeq(q, 1, Len(front)) = front
        /\ Len(q) > Len(front) => q[Len(front) + 1] = "/"

\* C7: every key of the scoped map is one path component, with no "/" in it,
\* and is the first component below the listed directory of some path of the
\* input map that lies under the listed directory.
C7_ScopedKeysAreChildren ==
    scoped.some
        => \A k \in DOMAIN scoped.val :
             /\ k # <<>>
             /\ ~HasSlash(k)
             /\ \E q \in DOMAIN status_map : NamesChild(q, rel_base, k)

C7_Witness ==
    /\ scoped.some
    /\ rel_base = <<"a">>
    /\ DOMAIN status_map = {<<"a", "/", "a", "b", "/", "a">>, <<"a", "b", "/", "a">>}
    /\ DOMAIN scoped.val = {<<"a", "b">>}

StatusFails ==
    /\ cli.git
    /\ env.canonicalize = "ok" /\ env.rev_parse = "ok" /\ env.inside
    /\ env.status # "ok"

C9_TableOnlyAfterSuccess ==
    /\ stdout # <<>>
         => /\ pc \in {"render", "done"}
            /\ result.ok
            /\ todo = {}
            /\ rows = sort_rows(input, cli.sort_modified, cli.reverse)
    /\ ~result.ok => stdout = <<>> /\ pc \in {"fail", "done"}
    /\ pc = "done"
         => IF result.ok
            THEN exit_code = Some(0) /\ stderr = <<>> /\ stdout = table_lines(rows)
            ELSE exit_code = Some(1) /\ Len(stderr) = 1 /\ stdout = <<>>
    /\ pc # "done" => exit_code = None /\ stderr = <<>>

C9_Witness ==
    /\ pc = "done"
    /\ ~result.ok /\ result.err = "cannot read metadata for"
    /\ Len(rows) = 1
    /\ stdout = <<>>
    /\ Len(stderr) = 1
    /\ exit_code = Some(1)

\* the tokens of a record, in the order of the claim
SuffixTokens(st) ==
    (IF st.untracked /\ ~st.added.some THEN <<(<<"+", "?">>)>> ELSE <<>>)
    \o (IF st.added.some THEN <<(<<"+">> \o Digits(st.added.val))>> ELSE <<>>)
    \o (IF st.deleted.some THEN <<(<<"-">> \o Digits(st.deleted.val))>> ELSE <<>>)

\* C10: the plain suffix of a record is empty when the record is neither dirty
\* nor untracked; otherwise it is "(", the tokens "+?" (untracked, no added
\* count), "+{added}" and "-{deleted}" (counts present) in this order with one
\* space between them, or the one token "dirty" when there is none, and ")";
\* added=3, deleted=1, dirty gives "(+3 -1)".
C10_PlainSuffix ==
    fmt_suffix.some
        => LET st == fmt_status
               plain == fmt_suffix.val.plain
               tokens == SuffixTokens(st)
           IN  /\ (~st.dirty /\ ~st.untracked) => plain = <<>>
               /\ (st.dirty \/ st.untracked)
                    => /\ Len(plain) >= 2
                       /\ plain[1] = "(" /\ plain[Len(plain)] = ")"
                       /\ LET inner == SubSeq(plain, 2, Len(plain) - 1)
                          IN  IF tokens = <<>> THEN inner = <<"d", "i", "r", "t", "y">>
                              ELSE inner = join_space(tokens)
               /\ st = GitStatus(Some(3), Some(1), TRUE, FALSE)
                    => plain = <<"(", "+", "3", " ", "-", "1", ")">>

C10_Witness ==
    /\ fmt_suffix.some
    /\ fmt_status = GitStatus(Some(10), None, FALSE, TRUE)
    /\ fmt_suffix.val.plain = <<"(", "+", "1", "0", ")">>

\* the exponent of the largest unit that does not exceed the count b
LargestUnit(b) ==
    LET used == {i \in 1..Len(b) : b[i] # 0}
        top == IF used = {} THEN 1 ELSE CHOOSE i \in used : \A j \in used : j <= i
    IN  IF top > 5 THEN 4 ELSE top - 1

UnitName(k) ==
    CASE k = 0 -> <<"B">>
      [] k = 1 -> <<"K", "B">>
      [] k = 2 -> <<"M", "B">>
      [] k = 3 -> <<"G", "B">>
      [] k = 4 -> <<"T", "B">>

DigitChars == {"0", "1", "2", "3", "4", "5", "6", "7", "8", "9"}

AllDigits(t) == t # <<>> /\ \A i \in 1..Len(t) : t[i] \in DigitChars

\* digits, a point and one digit
OneDecimal(t) ==
    /\ Len(t) >= 3
    /\ t[Len(t) - 1] = "."
    /\ t[Len(t)] \in DigitChars
    /\ AllDigits(SubSeq(t, 1, Len(t) - 2))

\* C11: the unit of the text is the largest of B, KB, MB, GB, TB that does not
\* exceed the byte count (B for 0), so 1023 is in B and 1024 in KB; the number
\* has exactly one decimal place when the unit is not B and count/unit < 10,
\* and is an integer without decimals otherwise.
C11_UnitAndDecimals ==
    size_text.some
        => LET b == size_in.val
               text == size_text.val
               k == LargestUnit(b)
               tail == <<" ">> \o UnitName(k)
               number == SubSeq(text, 1, Len(text) - Len(tail))
               below_ten == b[k + 1] < 10 /\ \A i \in (k + 2)..Len(b) : b[i] = 0
           IN  /\ EndsWith(text, tail)
               /\ IF k # 0 /\ below_ten THEN OneDecimal(number) ELSE AllDigits(number)
               /\ b = <<1023, 0, 0, 0, 0>> => text = <<"1", "0", "2", "3", " ", "B">>
               /\ b = <<0, 1, 0, 0, 0>> => text = <<"1", ".", "0", " ", "K", "B">>
               /\ b = <<512, 1, 0, 0, 0>> => text = <<"1", ".", "5", " ", "K", "B">>
               /\ b = <<0, 0, 12, 0, 0>> => text = <<"1", "2", " ", "M", "B">>
               /\ b = <<896, 147, 1, 0, 0>> => text = <<"1", ".", "1", " ", "M", "B">>

C11_Witness ==
    /\ size_in = Some(<<0, 0, 0, 0, 1>>)
    /\ size_text = Some(<<"1", ".", "0", " ", "T", "B">>)

\* the sum of the present counts (added or deleted) of the records of paths
RECURSIVE CountSum(_, _, _)
CountSum(map, paths, field) ==
    IF paths = {} THEN 0
    ELSE LET q == CHOOSE x \in paths : TRUE
             c == IF field = "added" THEN map[q].added ELSE map[q].deleted
         IN  (IF c.some THEN c.val ELSE 0) + CountSum(map, paths \ {q}, field)

\* C12: the record under a key of the scoped map combines the input records
\* whose first component below the listed directory is that key: dirty and
\* untracked are the OR of theirs, added (and deleted) is absent when absent
\* in all of them and otherwise the sum of the present values, in whatever
\* order the input map is iterated.
C12_ScopedRecordCombinesGroup ==
    scoped.some
        => \A k \in DOMAIN scoped.val :
             LET group == {q \in DOMAIN status_map : NamesChild(q, rel_base, k)}
                 rec == scoped.val[k]
             IN  /\ rec.dirty = (\E q \in group : status_map[q].dirty)
                 /\ rec.untracked = (\E q \in group : status_map[q].untracked)
                 /\ rec.added = IF \A q \in group : ~status_map[q].added.some THEN None
                                ELSE Some(CountSum(status_map, group, "added"))
                 /\ rec.deleted = IF \A q \in group : ~status_map[q].deleted.some THEN None
                                  ELSE Some(CountSum(status_map, group, "deleted"))

C12_Witness ==
    /\ scoped.some
    /\ rel_base = <<"a">>
    /\ DOMAIN status_map = {<<"a", "/", "a", "b">>, <<"a", "/", "a", "b", "/", "a">>}
    /\ status_map[<<"a", "/", "a", "b">>] = GitStatus(None, None, TRUE, TRUE)
    /\ status_map[<<"a", "/", "a", "b", "/", "a">>] = Counted
    /\ scoped.val = [k \in {<<"a", "b">>} |-> GitStatus(Some(1), Some(2), TRUE, TRUE)]

\* the last line read came from git diff --numstat, carries three fields and
\* at least one count, so that it reaches the map
NumstatMerged ==
    /\ lines_read # <<>>
    /\ lines_read[Len(lines_read)].from = "numstat"
    /\ LET parts == split_tab(lines_read[Len(lines_read)].text, <<>>)
       IN  /\ Len(parts) >= 3
           /\ parse_u64(parts[1]).some \/ parse_u64(parts[2]).some

LineAdded == parse_u64(split_tab(lines_read[Len(lines_read)].text, <<>>)[1])

LineDeleted == parse_u64(split_tab(lines_read[Len(lines_read)].text, <<>>)[2])

LinePath == split_tab(lines_read[Len(lines_read)].text, <<>>)[3]

\* C13 as claimed: a count the record already has is kept, and the line's
\* count only fills an absent one (first value wins).
C13_Claimed_FirstCountWins ==
    NumstatMerged
        => /\ LinePath \in DOMAIN status_map
           /\ status_map[LinePath].dirty
           /\ IF LinePath \in DOMAIN map_before
              THEN /\ status_map[LinePath].added
                        = IF map_before[LinePath].added.some
                          THEN map_before[LinePath].added ELSE LineAdded
                   /\ status_map[LinePath].deleted
                        = IF map_before[LinePath].deleted.some
                          THEN map_before[LinePath].deleted ELSE LineDeleted
              ELSE status_map[LinePath] = GitStatus(LineAdded, LineDeleted, TRUE, FALSE)

\* C13: when merge_numstat processes a line whose path is already a key, a
\* count present on the line replaces the record's count and the record's
\* count is kept only where the line's is absent (last present value wins),
\* and dirty becomes true; when the path is not yet a key, a record with the
\* line's counts, dirty and not untracked is inserted.
C13_LineCountWins ==
    NumstatMerged
        => /\ LinePath \in DOMAIN status_map
           /\ status_map[LinePath].dirty
           /\ IF LinePath \in DOMAIN map_before
              THEN /\ status_map[LinePath].added
                        = IF LineAdded.some THEN LineAdded ELSE map_before[LinePath].added
                   /\ status_map[LinePath].deleted
                        = IF LineDeleted.some THEN LineDeleted
                          ELSE map_before[LinePath].deleted
              ELSE status_map[LinePath] = GitStatus(LineAdded, LineDeleted, TRUE, FALSE)

C13_Witness ==
    /\ Len(lines_read) = 2
    /\ lines_read[1] = [from |-> "numstat", text |-> <<"1", "\t", "2", "\t", "a", "/", "b">>]
    /\ lines_read[2] = [from |-> "numstat", text |-> <<"3", "\t", "0", "\t", "a", "/", "b">>]
    /\ map_before = [q \in {<<"a", "/", "b">>} |-> GitStatus(Some(1), Some(2), TRUE, FALSE)]
    /\ status_map = [q \in {<<"a", "/", "b">>} |-> GitStatus(Some(3), Some(0), TRUE, FALSE)]

\* a record with a count is dirty, and format_git shows each of its counts
CountsShown(rec) ==
    /\ (rec.added.some \/ rec.deleted.some) => rec.dirty
    /\ rec.added.some
         => contains(format_git(rec).plain, <<"+">> \o Digits(rec.added.val))
    /\ rec.deleted.some
         => contains(format_git(rec).plain, <<"-">> \o Digits(rec.deleted.val))
    /\ (rec.added.some \/ rec.deleted.some)
         => format_git(rec).colored # paint(<<"(", "c", "l", "e", "a", "n", ")">>, GIT_CLEAN)

\* C16: after any lines parsed by read_git_status, any lines merged by
\* merge_numstat, and scoping by scope_git_entries, every record that carries
\* an added or deleted count is dirty, so it is never formatted as clean and
\* its counts appear in the suffix.
C16_CountedRecordsAreDirty ==
    /\ \A q \in DOMAIN status_map : CountsShown(status_map[q])
    /\ scoped.some => \A k \in DOMAIN scoped.val : CountsShown(scoped.val[k])

C16_Witness ==
    /\ scoped.some
    /\ Len(lines_read) = 2
    /\ lines_read[1] = [from |-> "status", text |-> <<" ", " ", " ", "a">>]
    /\ lines_read[2] = [from |-> "numstat", text |-> <<"2", "\t", "-", "\t", "a">>]
    /\ map_before = [q \in {<<"a">>} |-> GitStatus(None, None, FALSE, FALSE)]
    /\ scoped.val = [k \in {<<"a">>} |-> GitStatus(Some(2), None, TRUE, FALSE)]

\* the colored names color_name can give a row: the row does not record
\* whether its entry is executable
BareColored(row) ==
    {color_name(row.name_plain, row.is_dir, x, is_hidden(row.name_plain)) : x \in BOOLEAN}

HasRecord(row) == git_info.some /\ row.name_plain \in DOMAIN git_info.val

IsBare(row) ==
    /\ row.name_with_git_plain = row.name_plain
    /\ row.name_with_git_colored \in BareColored(row)

HasSuffix(row) ==
    LET suffix == format_git(git_info.val[row.name_plain])
    IN  /\ row.name_with_git_plain = row.name_plain \o <<" ">> \o suffix.plain
        /\ row.name_with_git_colored \in {c \o <<" ">> \o suffix.colored : c \in BareColored(row)}

\* C14 as claimed: every child whose name is a key of the status map has
\* both display names followed by a space and the formatted suffix.
C14_Claimed_SuffixForEveryRecord ==
    \A i \in 1..Len(rows) :
        IF HasRecord(rows[i]) THEN HasSuffix(rows[i]) ELSE IsBare(rows[i])

\* C14: a child whose record formats to a non-empty plain suffix has both
\* display names followed by one space and the suffix (plain for the plain
\* name, colored for the colored name); a child whose record formats to an
\* empty plain suffix (a clean record), and a child with no record, has both
\* display names bare.
C14_SuffixUnlessClean ==
    \A i \in 1..Len(rows) :
        IF HasRecord(rows[i]) /\ format_git(git_info.val[rows[i].name_plain]).plain # <<>>
        THEN HasSuffix(rows[i])
        ELSE IsBare(rows[i])

C14_Witness ==
    /\ pc = "render"
    /\ git_info.some
    /\ git_info.val[<<"a">>] = Clean
    /\ git_info.val[<<"r", ".", "m", "d">>] = Counted
    /\ Len(rows) = 3
    /\ rows[1].name_with_git_plain = <<".", "h">>
    /\ rows[2].name_with_git_plain = <<"a">>
    /\ rows[2].name_with_git_colored = paint(<<"a">>, EXEC)
    /\ rows[3].name_with_git_plain = <<"r", ".", "m", "d", " ", "(", "+", "1", " ", "-", "2", ")">>
    /\ rows[3].name_with_git_colored
         = paint(<<"r", ".", "m", "d">>, WARN) \o <<" ", "(">> \o paint(<<"+", "1">>, GIT_ADDED)
           \o <<" ">> \o paint(<<"-", "2">>, GIT_REMOVED) \o <<")">>

\* the escape sequences of the palette: they take no room on the terminal
Escapes ==
    {c[1] : c \in {RESET, BORDER, HEADER, INDEX, TYPE, SIZE, MODIFIED, MODIFIED_RECENT,
                   MODIFIED_SOON, MODIFIED_HOURS, MODIFIED_DAYS, MODIFIED_WEEKS,
                   MODIFIED_OLD, MODIFIED_FUTURE, DIR, FILE, EXEC, DOTFILE, WARN,
                   GIT_DIRTY, GIT_ADDED, GIT_REMOVED, GIT_CLEAN}}

\* the columns a line takes on the terminal: every character but the escapes
VisibleWidth(line) == Cardinality({i \in 1..Len(line) : line[i] \notin Escapes})

\* the cells of column col, header included
ColumnCells(col) ==
    {header_cells[col]} \cup {data_cells(i - 1, rows[i])[col] : i \in 1..Len(rows)}

\* C15: every column is at least as wide as the plain text of its header and
\* of each of its cells (the index column: as the digits of the largest
\* index), so that no cell is truncated, and the top border, the header, the
\* separator, every data row and the bottom border all have the same visible
\* width.
C15_AllLinesSameVisibleWidth ==
    /\ \A col \in 1..5 : \A cell \in ColumnCells(col) :
         table_widths(rows)[col] >= Len(cell.plain)
    /\ \A i, j \in 1..Len(stdout) : VisibleWidth(stdout[i]) = VisibleWidth(stdout[j])

====
